---- MODULE Spec2Model ----
(***************************************************************************)
(* AiService (cli/src/services/ai.service.ts): lazy selection of one of    *)
(* two AI backends (the vendor AiAssistantClient or a direct axios client  *)
(* for an OpenAI-style endpoint) and the four operations chat,             *)
(* applySuggestion, askAi and createFreeAiCredits.                         *)
(*                                                                         *)
(* The service is a singleton used by concurrent async callers.  JavaScript*)
(* runs each caller without interruption between two awaits, so one action *)
(* below is one such run: from the call (or the resumption of an await) to *)
(* the next await, return or throw.                                        *)
(***************************************************************************)
EXTENDS Integers, Sequences, FiniteSets, TLC

\* ------------------------------------------------------------------ bounds
MaxCalls == 2          \* operation calls started in one behaviour

Callers == {"c1", "c2"}

\* ------------------------------------------------------------- JS helpers
\* `undefined` for object-valued fields (client, customHttpClient).
Undefined == [kind |-> "undefined"]

\* a || b on strings: the empty string (and an unset variable, which every
\* use in this file treats the same way) is falsy.
OrElse(a, b) == IF a # "" THEN a ELSE b

\* an optional value is <<>> (undefined) or <<v>>; opt || d
OptOrElse(opt, d) == IF opt = <<>> \/ opt[1] = "" THEN d ELSE opt[1]

N8N_VERSION == "1.0.0"

\* ------------------------------------------------------------ input sets
BaseUrlCfgVals == {"", "http://cfg"}
BaseUrlEnvVals == {"", "http://env"}
ApiKeyCfgVals  == {"", "key-cfg"}
ApiKeyEnvVals  == {"", "key-env"}
ModelCfgVals   == {"", "model-cfg"}
ModelEnvVals   == {"", "model-env"}

SessionIds == {"s1", "s2"}
Users == {[id |-> "u1", email |-> "u1@example.com"]}

ChatPayloads  == {[sessionId |-> s, payload |-> "init"] : s \in SessionIds}
ApplyPayloads == {[sessionId |-> s, suggestionId |-> "sg"] : s \in SessionIds}
AskPayloads   == {[question |-> "q", context |-> "ctx", forNode |-> "code"]}

\* ---------------------------------------------------------------- strings
\* Message contents the endpoint may put in choices[0].message.content, and
\* the characters each consists of (TLC cannot index a string).  '{}' is the
\* default literal of applySuggestion.
Contents == {"", "{}", "{\"a\":1}", "{\"a\":1", "Sure!", "12"}

Chars ==
    [s \in Contents |->
        CASE s = ""            -> <<>>
          [] s = "{}"          -> <<"{", "}">>
          [] s = "{\"a\":1}"   -> <<"{", "\"", "a", "\"", ":", "1", "}">>
          [] s = "{\"a\":1"    -> <<"{", "\"", "a", "\"", ":", "1">>
          [] s = "Sure!"       -> <<"S", "u", "r", "e", "!">>
          [] s = "12"          -> <<"1", "2">>]

\* ------------------------------------------------------------- JSON.parse
\* JSON.parse on texts made of objects, strings without escapes, unsigned
\* integers without a leading zero, and blanks: the grammar of ECMA-404
\* restricted to the characters that occur in Contents.
JNum(n) == [t |-> "number", n |-> n]
JStr(cs) == [t |-> "string", chars |-> cs]
JObj(ms) == [t |-> "object", members |-> ms]

Digits == {"1", "2", "3", "4", "5", "6", "7", "8", "9"}
DigitVal(d) ==
    CASE d = "1" -> 1 [] d = "2" -> 2 [] d = "3" -> 3 [] d = "4" -> 4
      [] d = "5" -> 5 [] d = "6" -> 6 [] d = "7" -> 7 [] d = "8" -> 8
      [] d = "9" -> 9

ParseFail == [ok |-> FALSE]
ParseOk(v, next) == [ok |-> TRUE, val |-> v, next |-> next]

RECURSIVE SkipWs(_, _)
SkipWs(s, i) == IF i <= Len(s) /\ s[i] = " " THEN SkipWs(s, i + 1) ELSE i

RECURSIVE ParseDigits(_, _, _)
ParseDigits(s, i, acc) ==
    IF i <= Len(s) /\ s[i] \in Digits
    THEN ParseDigits(s, i + 1, 10 * acc + DigitVal(s[i]))
    ELSE ParseOk(JNum(acc), i)

\* s[i] is the opening quote
RECURSIVE ParseStringFrom(_, _, _)
ParseStringFrom(s, j, acc) ==
    IF j > Len(s) THEN ParseFail
    ELSE IF s[j] = "\"" THEN ParseOk(JStr(acc), j + 1)
    ELSE ParseStringFrom(s, j + 1, Append(acc, s[j]))

ParseString(s, i) == ParseStringFrom(s, i + 1, <<>>)

RECURSIVE ParseValue(_, _)
RECURSIVE ParseMembers(_, _, _)
ParseValue(s, i0) ==
    LET i == SkipWs(s, i0) IN
    IF i > Len(s) THEN ParseFail
    ELSE IF s[i] = "{" THEN
        LET j == SkipWs(s, i + 1) IN
        IF j <= Len(s) /\ s[j] = "}" THEN ParseOk(JObj(<<>>), j + 1)
        ELSE ParseMembers(s, j, <<>>)
    ELSE IF s[i] = "\"" THEN ParseString(s, i)
    ELSE IF s[i] \in Digits THEN ParseDigits(s, i, 0)
    ELSE ParseFail

ParseMembers(s, i, acc) ==
    IF i > Len(s) \/ s[i] # "\"" THEN ParseFail
    ELSE
      LET k == ParseString(s, i) IN
      IF ~k.ok THEN ParseFail
      ELSE
        LET c == SkipWs(s, k.next) IN
        IF c > Len(s) \/ s[c] # ":" THEN ParseFail
        ELSE
          LET v == ParseValue(s, c + 1) IN
          IF ~v.ok THEN ParseFail
          ELSE
            LET e == SkipWs(s, v.next)
                acc2 == Append(acc, <<k.val.chars, v.val>>)
            IN
            IF e > Len(s) THEN ParseFail
            ELSE IF s[e] = "}" THEN ParseOk(JObj(acc2), e + 1)
            ELSE IF s[e] = "," THEN ParseMembers(s, SkipWs(s, e + 1), acc2)
            ELSE ParseFail

\* JSON.parse(text): the value, or a thrown SyntaxError
JSONParse(text) ==
    LET s == Chars[text]
        r == ParseValue(s, 1)
    IN
    IF r.ok /\ SkipWs(s, r.next) = Len(s) + 1
    THEN [ok |-> TRUE, val |-> r.val]
    ELSE [ok |-> FALSE,
          error |-> [message |-> "Unexpected token in JSON", response |-> <<>>]]

VARIABLES
    cfg,                \* globalConfig.aiAssistant {baseUrl, apiKey, model}
    env,                \* process.env, the three N8N_AI_* variables
    aiAssistantEnabled, \* what licenseService.isAiAssistantEnabled() returns
    client,             \* this.client
    customHttpClient,   \* this.customHttpClient
    useCustomEndpoint,  \* this.useCustomEndpoint
    pc,                 \* where each caller's call is suspended
    call,               \* the operation a caller invoked, with its arguments
    initLocals,         \* locals of a caller's init() suspended at loadCertStr
    ranInit,            \* whether the caller's current call entered init()
    req,                \* the request the call sent to a backend
    nreq,               \* how many requests the call sent
    resp,               \* what the backend answered
    result,             \* what the call returns or throws
    constructed,        \* client handles constructed so far
    calls               \* operation calls started so far

vars == <<cfg, env, aiAssistantEnabled, client, customHttpClient,
          useCustomEndpoint, pc, call, initLocals, ranInit, req, nreq, resp,
          result, constructed, calls>>

config == <<cfg, env, aiAssistantEnabled>>
handles == <<client, customHttpClient, useCustomEndpoint>>

None == [kind |-> "none"]
\* ------------------------------------------------------ results of a call
Return(v) == [kind |-> "return", value |-> v]
Throw(e) == [kind |-> "throw", error |-> e]

\* assert(this.client, 'Assistant client not setup')
AssertionError == [name |-> "AssertionError",
                   message |-> <<"Assistant client not setup">>]

\* -------------------------------------------------- the direct endpoint
\* Bodies of a 2xx answer of POST /v1/chat/completions (response.data).
Bodies ==
    {[kind |-> "null"],
     [kind |-> "object"],
     [kind |-> "object", choices |-> <<>>],
     [kind |-> "object", choices |-> <<[index |-> 0]>>],
     [kind |-> "object", choices |-> <<[message |-> [role |-> "assistant"]]>>]}
    \cup {[kind |-> "object",
           choices |-> <<[message |-> [role |-> "assistant", content |-> s]]>>]
          : s \in Contents}

ErrorStatuses == {"500"}
ErrorBodies == {<<>>, <<[message |-> "boom"]>>, <<[error |-> "boom"]>>}

\* What `await this.customHttpClient.post(...)` settles with: a response, or
\* the AxiosError of a non-2xx answer or of a failure without an answer.
PostOutcomes ==
    {[kind |-> "response", status |-> "200", data |-> b] : b \in Bodies}
    \cup {[kind |-> "error", message |-> "Request failed with status code",
           response |-> <<[status |-> st, data |-> d]>>]
          : st \in ErrorStatuses, d \in ErrorBodies}
    \cup {[kind |-> "error", message |-> "Network Error", response |-> <<>>]}

\* what reading a property of null throws
TypeError == [message |-> "Cannot read properties of null",
              response |-> <<>>]

\* aiResponse.choices?.[0]?.message?.content, for an aiResponse that is an
\* object
ExtractContent(data) ==
    IF "choices" \notin DOMAIN data THEN <<>>
    ELSE IF Len(data.choices) = 0 THEN <<>>
    ELSE IF "message" \notin DOMAIN data.choices[1] THEN <<>>
    ELSE IF "content" \notin DOMAIN data.choices[1].message THEN <<>>
    ELSE <<data.choices[1].message.content>>

\* error.response?.data?.message
ServerMessage(error) ==
    IF error.response = <<>> THEN <<>>
    ELSE IF error.response[1].data = <<>> THEN <<>>
    ELSE IF "message" \notin DOMAIN error.response[1].data[1] THEN <<>>
    ELSE <<error.response[1].data[1].message>>

\* WrapError without the status: `Custom AI service error: ${message}`
WrapErrorNoStatus(error) ==
    [name |-> "Error",
     message |->
        <<"Custom AI service error: ",
          OptOrElse(ServerMessage(error), error.message)>>]

\* `Custom AI service error: ${error.response?.status || 'Unknown'} -
\*  ${error.response?.data?.message || error.message}`, as its parts
WrapError(error) ==
    [name |-> "Error",
     message |->
        <<"Custom AI service error: ",
          IF error.response = <<>> THEN "Unknown"
          ELSE OrElse(error.response[1].status, "Unknown"),
          " - ",
          OptOrElse(ServerMessage(error), error.message)>>]

FallbackText == "No response from AI service"

\* chat() reading the text of the legacy completions API, choices[0].text
ChatDirectResultLegacyText(payload, r) ==
    IF r.kind = "error" THEN Throw(WrapError(r))
    ELSE IF r.data.kind = "null" THEN Throw(WrapError(TypeError))
    ELSE Return([sessionId |-> payload.sessionId,
                 messages |->
                    <<[role |-> "assistant", type |-> "message",
                       text |->
                          IF /\ "choices" \in DOMAIN r.data
                             /\ Len(r.data.choices) > 0
                             /\ "text" \in DOMAIN r.data.choices[1]
                          THEN OrElse(r.data.choices[1].text, FallbackText)
                          ELSE FallbackText]>>])

\* The try block of chat() after the POST settled with r, and its catch.
ChatDirectResult(payload, r) ==
    IF r.kind = "error" THEN Throw(WrapError(r))
    ELSE IF r.data.kind = "null" THEN Throw(WrapError(TypeError))
    ELSE Return([sessionId |-> payload.sessionId,
                 messages |->
                    <<[role |-> "assistant", type |-> "message",
                       text |-> OptOrElse(ExtractContent(r.data),
                                          FallbackText)]>>])

\* The try block of applySuggestion() after the POST settled, and its catch.
ApplySuggestionDirectResult(payload, r) ==
    IF r.kind = "error" THEN Throw(WrapError(r))
    ELSE IF r.data.kind = "null" THEN Throw(WrapError(TypeError))
    ELSE
      LET parsed == JSONParse(OptOrElse(ExtractContent(r.data), "{}")) IN
      IF parsed.ok
      THEN Return([sessionId |-> payload.sessionId, parameters |-> parsed.val])
      ELSE Throw(WrapError(parsed.error))

\* askAi() without optional chaining: aiResponse.choices[0].message.content
AskAiDirectResultStrict(payload, r) ==
    IF r.kind = "error" THEN Throw(WrapError(r))
    ELSE IF r.data.kind = "null" THEN Throw(WrapError(TypeError))
    ELSE IF \/ "choices" \notin DOMAIN r.data
            \/ Len(r.data.choices) = 0
            \/ "message" \notin DOMAIN r.data.choices[1]
    THEN Throw(WrapError(TypeError))
    ELSE Return([answer |-> OptOrElse(ExtractContent(r.data), FallbackText),
                 code |-> ""])

\* The try block of askAi() after the POST settled, and its catch.
AskAiDirectResult(payload, r) ==
    IF r.kind = "error" THEN Throw(WrapError(r))
    ELSE IF r.data.kind = "null" THEN Throw(WrapError(TypeError))
    ELSE Return([answer |-> OptOrElse(ExtractContent(r.data), FallbackText),
                 code |-> ""])

DirectResult(c, r) ==
    CASE c.op = "chat" -> ChatDirectResult(c.payload, r)
      [] c.op = "applySuggestion" -> ApplySuggestionDirectResult(c.payload, r)
      [] c.op = "askAi" -> AskAiDirectResult(c.payload, r)

\* model: config model, else the environment's, else the default
RequestModel == OrElse(cfg.model, OrElse(env.model, "gpt-3.5-turbo"))

\* The openAIPayload each operation builds.  JSON.stringify(payload) is kept
\* as the payload under a "json" tag.
OpenAIPayload(op, payload, user) ==
    [model |-> RequestModel,
     messages |->
        CASE op = "chat" ->
               <<[role |-> "user", content |-> <<"json", payload>>]>>
          [] op = "applySuggestion" ->
               <<[role |-> "system", content |-> <<"apply-instructions">>],
                 [role |-> "user",
                  content |-> <<"Apply suggestion: ", "json", payload>>]>>
          [] op = "askAi" ->
               <<[role |-> "system", content |-> <<"ask-instructions">>],
                 [role |-> "user",
                  content |-> <<"Question: ", payload.question,
                                "Context: ", "json", payload.context,
                                "For node: ", payload.forNode>>]>>,
     stream |-> FALSE,
     user |-> user.id]

\* ---------------------------------------------------- the vendor client
\* What a method of AiAssistantClient settles with.
VendorOutcomes ==
    {Return([vendor |-> "ok"]),
     Throw([name |-> "APIResponseError", message |-> <<"vendor failure">>])}

\* the vendor call inside the try / catch of the direct path
VendorResultWrapped(r) ==
    IF r.kind = "throw"
    THEN Throw([name |-> "Error",
                message |-> <<"Custom AI service error: ", "Unknown", " - ">>
                            \o r.error.message])
    ELSE r

\* `return await this.client.<method>(...)`
VendorResult(r) == r

\* ------------------------------------------------------------------ state
Init ==
    /\ cfg \in [baseUrl : BaseUrlCfgVals, apiKey : ApiKeyCfgVals,
                model : ModelCfgVals]
    /\ env \in [baseUrl : BaseUrlEnvVals, apiKey : ApiKeyEnvVals,
                model : ModelEnvVals]
    /\ aiAssistantEnabled \in BOOLEAN
    /\ client = Undefined
    /\ customHttpClient = Undefined
    /\ useCustomEndpoint = FALSE
    /\ pc = [c \in Callers |-> "idle"]
    /\ call = [c \in Callers |-> None]
    /\ initLocals = [c \in Callers |-> None]
    /\ ranInit = [c \in Callers |-> FALSE]
    /\ req = [c \in Callers |-> None]
    /\ nreq = [c \in Callers |-> 0]
    /\ resp = [c \in Callers |-> None]
    /\ result = [c \in Callers |-> None]
    /\ constructed = 0
    /\ calls = 0

\* axios.create({baseURL, headers, timeout})
AxiosCreate(baseUrl, apiKey, model) ==
    [kind |-> "AxiosInstance",
     baseURL |-> baseUrl,
     headers |->
        [h \in {"Authorization", "Content-Type", "User-Agent"}
                \cup (IF model # "" THEN {"X-Model"} ELSE {}) |->
            CASE h = "Authorization" -> <<"Bearer ", apiKey>>
              [] h = "Content-Type" -> <<"application/json">>
              [] h = "User-Agent" -> <<"n8n/", N8N_VERSION>>
              [] h = "X-Model" -> <<model>>],
     timeout |-> 30000]

\* new AiAssistantClient({licenseCert, consumerId, n8nVersion, baseUrl,
\* logLevel})
NewAiAssistantClient(licenseCert, baseUrl) ==
    [kind |-> "AiAssistantClient",
     licenseCert |-> licenseCert,
     consumerId |-> "consumer",
     n8nVersion |-> N8N_VERSION,
     baseUrl |-> OrElse(baseUrl, ""),
     logLevel |-> "info"]

\* the environment variable tried before the structured configuration
ResolvedBaseUrlEnvFirst == OrElse(env.baseUrl, cfg.baseUrl)

\* the model taken from the structured configuration only
ResolvedModelConfigOnly == cfg.model

\* the three values init() resolves
ResolvedBaseUrl == OrElse(cfg.baseUrl, env.baseUrl)
ResolvedApiKey == OrElse(cfg.apiKey, env.apiKey)
ResolvedModel == OrElse(cfg.model, env.model)

\* init() setting useCustomEndpoint as soon as a base URL is configured,
\* before it checks the API key
initFlagFirst(c) ==
    /\ ranInit' = [ranInit EXCEPT ![c] = TRUE]
    /\ useCustomEndpoint' = (useCustomEndpoint \/ ResolvedBaseUrl # "")
    /\ IF ResolvedBaseUrl # "" /\ ResolvedApiKey # ""
       THEN /\ customHttpClient' =
                  AxiosCreate(ResolvedBaseUrl, ResolvedApiKey, ResolvedModel)
            /\ constructed' = constructed + 1
            /\ pc' = [pc EXCEPT ![c] = "awaitInit"]
            /\ UNCHANGED <<client, initLocals>>
       ELSE /\ initLocals' = [initLocals EXCEPT ![c] =
                                 [baseUrl |-> ResolvedBaseUrl]]
            /\ pc' = [pc EXCEPT ![c] = "awaitLoadCertStr"]
            /\ UNCHANGED <<client, customHttpClient, constructed>>

\* init() returning early when the licence does not enable the assistant
initLicenceGated(c) ==
    /\ ranInit' = [ranInit EXCEPT ![c] = TRUE]
    /\ IF ~aiAssistantEnabled
       THEN /\ pc' = [pc EXCEPT ![c] = "awaitInit"]
            /\ UNCHANGED <<handles, initLocals, constructed>>
       ELSE IF ResolvedBaseUrl # "" /\ ResolvedApiKey # ""
       THEN /\ useCustomEndpoint' = TRUE
            /\ customHttpClient' =
                  AxiosCreate(ResolvedBaseUrl, ResolvedApiKey, ResolvedModel)
            /\ constructed' = constructed + 1
            /\ pc' = [pc EXCEPT ![c] = "awaitInit"]
            /\ UNCHANGED <<client, initLocals>>
       ELSE /\ initLocals' = [initLocals EXCEPT ![c] =
                                 [baseUrl |-> ResolvedBaseUrl]]
            /\ pc' = [pc EXCEPT ![c] = "awaitLoadCertStr"]
            /\ UNCHANGED <<handles, constructed>>

\* init() without the else: the vendor client is constructed after the
\* direct one as well
initNoElse(c) ==
    /\ ranInit' = [ranInit EXCEPT ![c] = TRUE]
    /\ initLocals' = [initLocals EXCEPT ![c] = [baseUrl |-> ResolvedBaseUrl]]
    /\ pc' = [pc EXCEPT ![c] = "awaitLoadCertStr"]
    /\ IF ResolvedBaseUrl # "" /\ ResolvedApiKey # ""
       THEN /\ useCustomEndpoint' = TRUE
            /\ customHttpClient' =
                  AxiosCreate(ResolvedBaseUrl, ResolvedApiKey, ResolvedModel)
            /\ constructed' = constructed + 1
            /\ UNCHANGED client
       ELSE UNCHANGED <<handles, constructed>>

\* init(), called by c, up to its first await (the vendor path) or its end
\* (the direct path, which has no await).  aiAssistantEnabled is read and
\* logged only: neither branch depends on it.
init(c) ==
    /\ ranInit' = [ranInit EXCEPT ![c] = TRUE]
    /\ IF ResolvedBaseUrl # "" /\ ResolvedApiKey # ""
       THEN /\ useCustomEndpoint' = TRUE
            /\ customHttpClient' =
                  AxiosCreate(ResolvedBaseUrl, ResolvedApiKey, ResolvedModel)
            /\ constructed' = constructed + 1
            /\ pc' = [pc EXCEPT ![c] = "awaitInit"]
            /\ UNCHANGED <<client, initLocals>>
       ELSE /\ initLocals' = [initLocals EXCEPT ![c] =
                                 [baseUrl |-> ResolvedBaseUrl]]
            /\ pc' = [pc EXCEPT ![c] = "awaitLoadCertStr"]
            /\ UNCHANGED <<handles, constructed>>

\* The part of chat(), applySuggestion() and askAi() after the guarded
\* init(): the dispatch on useCustomEndpoint, up to the await of the request.
Dispatch(c, op, payload, user) ==
    IF useCustomEndpoint /\ customHttpClient # Undefined
    THEN /\ req' = [req EXCEPT ![c] =
                      [to |-> "direct", via |-> customHttpClient,
                       path |-> "/v1/chat/completions",
                       body |-> OpenAIPayload(op, payload, user)]]
         /\ nreq' = [nreq EXCEPT ![c] = @ + 1]
         /\ pc' = [pc EXCEPT ![c] = "awaitPost"]
         /\ UNCHANGED result
    ELSE IF client = Undefined
    THEN /\ result' = [result EXCEPT ![c] = Throw(AssertionError)]
         /\ pc' = [pc EXCEPT ![c] = "done"]
         /\ UNCHANGED <<req, nreq>>
    ELSE /\ req' = [req EXCEPT ![c] =
                      [to |-> "vendor", via |-> client, method |-> op,
                       payload |-> payload, user |-> [id |-> user.id]]]
         /\ nreq' = [nreq EXCEPT ![c] = @ + 1]
         /\ pc' = [pc EXCEPT ![c] = "awaitVendor"]
         /\ UNCHANGED result

\* createFreeAiCredits() without its assert: the call on an undefined client
\* throws a TypeError
DispatchCreditsNoAssert(c, user) ==
    IF client = Undefined
    THEN /\ result' = [result EXCEPT ![c] =
                         Throw([name |-> "TypeError",
                                message |->
                                   <<"Cannot read properties of undefined">>])]
         /\ pc' = [pc EXCEPT ![c] = "done"]
         /\ UNCHANGED <<req, nreq>>
    ELSE /\ req' = [req EXCEPT ![c] =
                      [to |-> "vendor", via |-> client,
                       method |-> "generateAiCreditsCredentials",
                       user |-> user]]
         /\ nreq' = [nreq EXCEPT ![c] = @ + 1]
         /\ pc' = [pc EXCEPT ![c] = "awaitVendor"]
         /\ UNCHANGED result

\* The part of createFreeAiCredits() after the guarded init().
DispatchCredits(c, user) ==
    IF client = Undefined
    THEN /\ result' = [result EXCEPT ![c] = Throw(AssertionError)]
         /\ pc' = [pc EXCEPT ![c] = "done"]
         /\ UNCHANGED <<req, nreq>>
    ELSE /\ req' = [req EXCEPT ![c] =
                      [to |-> "vendor", via |-> client,
                       method |-> "generateAiCreditsCredentials",
                       user |-> user]]
         /\ nreq' = [nreq EXCEPT ![c] = @ + 1]
         /\ pc' = [pc EXCEPT ![c] = "awaitVendor"]
         /\ UNCHANGED result

\* the guard of createFreeAiCredits() used by the other operations too
NoClientVendorOnly == client = Undefined

\* the guard of chat(), applySuggestion() and askAi()
NoClient == client = Undefined /\ customHttpClient = Undefined

\* A call of chat(), up to its first await.
chat(c) ==
    \E payload \in ChatPayloads, user \in Users :
        /\ pc[c] = "idle"
        /\ calls < MaxCalls
        /\ calls' = calls + 1
        /\ call' = [call EXCEPT ![c] =
                      [op |-> "chat", payload |-> payload, user |-> user]]
        /\ IF NoClient
           THEN init(c) /\ UNCHANGED <<req, nreq, result>>
           ELSE /\ Dispatch(c, "chat", payload, user)
                /\ UNCHANGED <<handles, initLocals, ranInit, constructed>>
        /\ UNCHANGED <<config, resp>>

\* A call of applySuggestion(), up to its first await.
applySuggestion(c) ==
    \E payload \in ApplyPayloads, user \in Users :
        /\ pc[c] = "idle"
        /\ calls < MaxCalls
        /\ calls' = calls + 1
        /\ call' = [call EXCEPT ![c] =
                      [op |-> "applySuggestion", payload |-> payload, user |-> user]]
        /\ IF NoClient
           THEN init(c) /\ UNCHANGED <<req, nreq, result>>
           ELSE /\ Dispatch(c, "applySuggestion", payload, user)
                /\ UNCHANGED <<handles, initLocals, ranInit, constructed>>
        /\ UNCHANGED <<config, resp>>

\* A call of askAi(), up to its first await.
askAi(c) ==
    \E payload \in AskPayloads, user \in Users :
        /\ pc[c] = "idle"
        /\ calls < MaxCalls
        /\ calls' = calls + 1
        /\ call' = [call EXCEPT ![c] =
                      [op |-> "askAi", payload |-> payload, user |-> user]]
        /\ IF NoClient
           THEN init(c) /\ UNCHANGED <<req, nreq, result>>
           ELSE /\ Dispatch(c, "askAi", payload, user)
                /\ UNCHANGED <<handles, initLocals, ranInit, constructed>>
        /\ UNCHANGED <<config, resp>>

\* A call of createFreeAiCredits(), up to its first await: its guard looks at
\* this.client only.
createFreeAiCredits(c) ==
    \E user \in Users :
        /\ pc[c] = "idle"
        /\ calls < MaxCalls
        /\ calls' = calls + 1
        /\ call' = [call EXCEPT ![c] =
                      [op |-> "createFreeAiCredits", user |-> user]]
        /\ IF client = Undefined
           THEN init(c) /\ UNCHANGED <<req, nreq, result>>
           ELSE /\ DispatchCredits(c, user)
                /\ UNCHANGED <<handles, initLocals, ranInit, constructed>>
        /\ UNCHANGED <<config, resp>>

\* init() keeping the vendor client it constructs in a local
loadCertStrResolvedNoAssign(c) ==
    /\ pc[c] = "awaitLoadCertStr"
    /\ constructed' = constructed + 1
    /\ initLocals' = [initLocals EXCEPT ![c] = None]
    /\ pc' = [pc EXCEPT ![c] = "awaitInit"]
    /\ UNCHANGED <<config, handles, call, ranInit, req, nreq, resp, result,
                   calls>>

\* init() clearing useCustomEndpoint where it constructs the vendor client
loadCertStrResolvedResetFlag(c) ==
    /\ pc[c] = "awaitLoadCertStr"
    /\ client' = NewAiAssistantClient("cert", initLocals[c].baseUrl)
    /\ useCustomEndpoint' = FALSE
    /\ constructed' = constructed + 1
    /\ initLocals' = [initLocals EXCEPT ![c] = None]
    /\ pc' = [pc EXCEPT ![c] = "awaitInit"]
    /\ UNCHANGED <<config, customHttpClient, call, ranInit, req, nreq, resp,
                   result, calls>>

\* init() checking this.client again after the await, constructing only when
\* it is still undefined
loadCertStrResolvedOnce(c) ==
    /\ pc[c] = "awaitLoadCertStr"
    /\ IF client = Undefined
       THEN /\ client' = NewAiAssistantClient("cert", initLocals[c].baseUrl)
            /\ constructed' = constructed + 1
       ELSE UNCHANGED <<client, constructed>>
    /\ initLocals' = [initLocals EXCEPT ![c] = None]
    /\ pc' = [pc EXCEPT ![c] = "awaitInit"]
    /\ UNCHANGED <<config, customHttpClient, useCustomEndpoint, call, ranInit,
                   req, nreq, resp, result, calls>>

\* licenseService.loadCertStr() resolves: the rest of init()'s vendor path.
loadCertStrResolved(c) ==
    /\ pc[c] = "awaitLoadCertStr"
    /\ client' = NewAiAssistantClient("cert", initLocals[c].baseUrl)
    /\ constructed' = constructed + 1
    /\ initLocals' = [initLocals EXCEPT ![c] = None]
    /\ pc' = [pc EXCEPT ![c] = "awaitInit"]
    /\ UNCHANGED <<config, customHttpClient, useCustomEndpoint, call, ranInit,
                   req, nreq, resp, result, calls>>

\* init() catching the rejection of loadCertStr() and returning normally
loadCertStrRejectedSwallowed(c) ==
    /\ pc[c] = "awaitLoadCertStr"
    /\ initLocals' = [initLocals EXCEPT ![c] = None]
    /\ pc' = [pc EXCEPT ![c] = "awaitInit"]
    /\ UNCHANGED <<config, handles, call, ranInit, req, nreq, resp, result,
                   constructed, calls>>

\* licenseService.loadCertStr() rejects: init() and the operation that
\* awaits it reject with the same error.
loadCertStrRejected(c) ==
    /\ pc[c] = "awaitLoadCertStr"
    /\ result' = [result EXCEPT ![c] =
                    Throw([name |-> "Error",
                           message |-> <<"loadCertStr failed">>])]
    /\ initLocals' = [initLocals EXCEPT ![c] = None]
    /\ pc' = [pc EXCEPT ![c] = "done"]
    /\ UNCHANGED <<config, handles, call, ranInit, req, nreq, resp,
                   constructed, calls>>

\* `await this.init()` resumes in the operation that called it.
initReturned(c) ==
    /\ pc[c] = "awaitInit"
    /\ IF call[c].op = "createFreeAiCredits"
       THEN DispatchCredits(c, call[c].user)
       ELSE Dispatch(c, call[c].op, call[c].payload, call[c].user)
    /\ UNCHANGED <<config, handles, call, initLocals, ranInit, resp,
                   constructed, calls>>

\* the POST sent a second time when the first one failed
postSettledRetry(c) ==
    /\ pc[c] = "awaitPost"
    /\ \E r \in PostOutcomes :
          IF r.kind = "error" /\ nreq[c] < 2
          THEN /\ nreq' = [nreq EXCEPT ![c] = @ + 1]
               /\ UNCHANGED <<resp, result, pc>>
          ELSE /\ resp' = [resp EXCEPT ![c] = r]
               /\ result' = [result EXCEPT ![c] = DirectResult(call[c], r)]
               /\ pc' = [pc EXCEPT ![c] = "done"]
               /\ UNCHANGED nreq
    /\ UNCHANGED <<config, handles, call, initLocals, ranInit, req,
                   constructed, calls>>

\* The POST to the direct endpoint settles.
postSettled(c) ==
    /\ pc[c] = "awaitPost"
    /\ \E r \in PostOutcomes :
          /\ resp' = [resp EXCEPT ![c] = r]
          /\ result' = [result EXCEPT ![c] = DirectResult(call[c], r)]
    /\ pc' = [pc EXCEPT ![c] = "done"]
    /\ UNCHANGED <<config, handles, call, initLocals, ranInit, req, nreq,
                   constructed, calls>>

\* The vendor client's method settles.
vendorSettled(c) ==
    /\ pc[c] = "awaitVendor"
    /\ \E r \in VendorOutcomes :
          /\ resp' = [resp EXCEPT ![c] = r]
          /\ result' = [result EXCEPT ![c] = VendorResult(r)]
    /\ pc' = [pc EXCEPT ![c] = "done"]
    /\ UNCHANGED <<config, handles, call, initLocals, ranInit, req, nreq,
                   constructed, calls>>

\* The caller has its result; it may call again.
returned(c) ==
    /\ pc[c] = "done"
    /\ pc' = [pc EXCEPT ![c] = "idle"]
    /\ call' = [call EXCEPT ![c] = None]
    /\ ranInit' = [ranInit EXCEPT ![c] = FALSE]
    /\ req' = [req EXCEPT ![c] = None]
    /\ nreq' = [nreq EXCEPT ![c] = 0]
    /\ resp' = [resp EXCEPT ![c] = None]
    /\ result' = [result EXCEPT ![c] = None]
    /\ UNCHANGED <<config, handles, initLocals, constructed, calls>>

Next ==
    \E c \in Callers :
        \/ chat(c)
        \/ applySuggestion(c)
        \/ askAi(c)
        \/ createFreeAiCredits(c)
        \/ loadCertStrResolved(c)
        \/ loadCertStrRejected(c)
        \/ initReturned(c)
        \/ postSettled(c)
        \/ vendorSettled(c)
        \/ returned(c)

Spec == Init /\ [][Next]_vars

\* Calls made one after the other: a call starts only when no other call is
\* in progress.
AllIdle == \A d \in Callers : pc[d] = "idle"

NextSeq ==
    \E c \in Callers :
        \/ AllIdle /\ chat(c)
        \/ AllIdle /\ applySuggestion(c)
        \/ AllIdle /\ askAi(c)
        \/ AllIdle /\ createFreeAiCredits(c)
        \/ loadCertStrResolved(c)
        \/ loadCertStrRejected(c)
        \/ initReturned(c)
        \/ postSettled(c)
        \/ vendorSettled(c)
        \/ returned(c)

SpecSeq == Init /\ [][NextSeq]_vars

\* The three operations that dispatch on the backend, without
\* createFreeAiCredits().
NextOps ==
    \E c \in Callers :
        \/ chat(c)
        \/ applySuggestion(c)
        \/ askAi(c)
        \/ loadCertStrResolved(c)
        \/ loadCertStrRejected(c)
        \/ initReturned(c)
        \/ postSettled(c)
        \/ vendorSettled(c)
        \/ returned(c)

SpecOps == Init /\ [][NextOps]_vars

\* process.env is written by something else in the process between two runs
\* of the service, which reads it anew in every init(): the two variables that
\* decide the backend, N8N_AI_ASSISTANT_BASE_URL and N8N_AI_ASSISTANT_API_KEY,
\* change.  The structured configuration is loaded once.
envChanged ==
    /\ \E e \in [baseUrl : BaseUrlEnvVals, apiKey : ApiKeyEnvVals,
                 model : ModelEnvVals] :
          /\ e # env
          /\ e.model = env.model
          /\ env' = e
    /\ UNCHANGED <<cfg, aiAssistantEnabled, handles, pc, call, initLocals,
                   ranInit, req, nreq, resp, result, constructed, calls>>

NextEnv ==
    \/ \E c \in Callers :
        \/ chat(c)
        \/ applySuggestion(c)
        \/ askAi(c)
        \/ createFreeAiCredits(c)
        \/ loadCertStrResolved(c)
        \/ loadCertStrRejected(c)
        \/ initReturned(c)
        \/ postSettled(c)
        \/ vendorSettled(c)
        \/ returned(c)
    \/ envChanged

\* The deployments in which every value comes from the environment: the
\* structured configuration is empty, so each change of process.env changes
\* what init() resolves.
InitEnv ==
    /\ Init
    /\ cfg = [baseUrl |-> "", apiKey |-> "", model |-> ""]

SpecEnv == InitEnv /\ [][NextEnv]_vars

\* ------------------------------------------------------------- properties
OpOf(c) == IF call[c] = None THEN "none" ELSE call[c].op
SentTo(c) == IF req[c] = None THEN "none" ELSE req[c].to
Done(c) == pc[c] = "done"

\* the configuration names a usable direct endpoint
ValidEndpointConfig ==
    /\ (cfg.baseUrl # "" \/ env.baseUrl # "")
    /\ (cfg.apiKey # "" \/ env.apiKey # "")

\* a 2xx answer of the direct endpoint whose body is an object
DirectAnswered(c) ==
    /\ Done(c)
    /\ SentTo(c) = "direct"
    /\ resp[c].kind = "response"
    /\ resp[c].data.kind = "object"

HasContent(data) ==
    /\ "choices" \in DOMAIN data
    /\ Len(data.choices) > 0
    /\ "message" \in DOMAIN data.choices[1]
    /\ "content" \in DOMAIN data.choices[1].message

ContentOf(data) == data.choices[1].message.content

\* C1: an init() that has completed selected the direct endpoint (flag set,
\* axios client populated with the resolved base URL and key, no vendor
\* client) exactly when base URL and API key resolve non-empty, each taken
\* from the structured configuration when non-empty and else from the
\* environment; otherwise it selected the vendor client (client populated,
\* flag false, no axios client).
C1_ModeSelection ==
    \A c \in Callers :
        pc[c] = "awaitInit" =>
            IF ValidEndpointConfig
            THEN /\ useCustomEndpoint
                 /\ customHttpClient # Undefined
                 /\ client = Undefined
                 /\ customHttpClient.baseURL =
                        (IF cfg.baseUrl # "" THEN cfg.baseUrl ELSE env.baseUrl)
                 /\ customHttpClient.headers["Authorization"] =
                        <<"Bearer ",
                          IF cfg.apiKey # "" THEN cfg.apiKey ELSE env.apiKey>>
            ELSE /\ ~useCustomEndpoint
                 /\ client # Undefined
                 /\ customHttpClient = Undefined

C1_Witness ==
    \E c \in Callers :
        /\ pc[c] = "awaitInit"
        /\ constructed = 1
        /\ useCustomEndpoint
        /\ cfg.baseUrl = "" /\ cfg.apiKey # ""

C3_InitIdempotent ==
    /\ constructed <= 1
    /\ \A c \in Callers :
          (ranInit[c] /\ pc[c] = "awaitInit") => constructed = 1

\* C4: in direct mode, after a successful answer, applySuggestion() returns
\* the request's sessionId and the parsed JSON of the content, and returns
\* the empty object, without throwing, when the content is absent or is not
\* JSON.
C4_ExpectedParameters(data) ==
    IF ~HasContent(data) THEN JObj(<<>>)
    ELSE CASE ContentOf(data) = "{\"a\":1}" -> JObj(<< <<<<"a">>, JNum(1)>> >>)
           [] ContentOf(data) = "12" -> JNum(12)
           [] OTHER -> JObj(<<>>)

C4_ApplySuggestionParameters ==
    \A c \in Callers :
        (DirectAnswered(c) /\ OpOf(c) = "applySuggestion") =>
            result[c] = Return([sessionId |-> call[c].payload.sessionId,
                                parameters |->
                                    C4_ExpectedParameters(resp[c].data)])

\* C5: in direct mode, when the POST fails, chat(), applySuggestion() and
\* askAi() throw one error whose message contains the HTTP status, when there
\* is one, and the server's message, or the raw error message when the server
\* gave none; nothing is returned.
Contains(parts, x) == \E i \in DOMAIN parts : parts[i] = x

C5_TransportFailure ==
    \A c \in Callers :
        (Done(c) /\ SentTo(c) = "direct" /\ resp[c].kind = "error") =>
            /\ result[c].kind = "throw"
            /\ resp[c].response # <<>> =>
                  Contains(result[c].error.message, resp[c].response[1].status)
            /\ IF /\ resp[c].response # <<>>
                  /\ resp[c].response[1].data # <<>>
                  /\ "message" \in DOMAIN resp[c].response[1].data[1]
               THEN Contains(result[c].error.message,
                             resp[c].response[1].data[1].message)
               ELSE Contains(result[c].error.message, resp[c].message)

C5_Witness ==
    \E c \in Callers :
        /\ Done(c)
        /\ OpOf(c) = "askAi"
        /\ SentTo(c) = "direct"
        /\ resp[c].kind = "error"
        /\ resp[c].response # <<>>
        /\ resp[c].response[1].data = <<[message |-> "boom"]>>
        /\ result[c].kind = "throw"

\* C6: createFreeAiCredits() never sends a request to the direct endpoint,
\* and with a configuration that selects the direct endpoint and no vendor
\* client it sends nothing and fails with the setup assertion.
C6_CreditsVendorOnly ==
    \A c \in Callers :
        OpOf(c) = "createFreeAiCredits" =>
            /\ SentTo(c) # "direct"
            /\ (ValidEndpointConfig /\ client = Undefined) => nreq[c] = 0
            /\ (ValidEndpointConfig /\ client = Undefined /\ Done(c)) =>
                  result[c] = Throw(AssertionError)

C6_Witness ==
    \E c \in Callers :
        /\ OpOf(c) = "createFreeAiCredits"
        /\ Done(c)
        /\ useCustomEndpoint /\ customHttpClient # Undefined
        /\ result[c] = Throw(AssertionError)

\* C7: init() is not guarded against concurrent first use: a caller that
\* resumes from loadCertStr() constructs a vendor client even when another
\* caller has constructed one in the meantime, so two concurrent first calls
\* construct the client twice.
C7_NoMutualExclusion ==
    [][\A c \in Callers :
          (pc[c] = "awaitLoadCertStr" /\ pc'[c] = "awaitInit") =>
              /\ constructed' = constructed + 1
              /\ client' # Undefined]_vars

C7_Witness ==
    /\ constructed = 2
    /\ calls = 2
    /\ client # Undefined
    /\ \A c \in Callers : ranInit[c]

\* C8: in vendor mode chat(), applySuggestion() and askAi() call the vendor
\* method of the same name with the request payload and {id: user.id}, send
\* nothing to the direct endpoint, and return or throw exactly what the
\* vendor client produced.
C8_VendorDelegation ==
    \A c \in Callers :
        OpOf(c) \in {"chat", "applySuggestion", "askAi"} =>
            /\ (client # Undefined /\ ~useCustomEndpoint) =>
                  SentTo(c) # "direct"
            /\ SentTo(c) = "vendor" =>
                  /\ req[c].method = call[c].op
                  /\ req[c].payload = call[c].payload
                  /\ req[c].user = [id |-> call[c].user.id]
                  /\ req[c].via = client
                  /\ Done(c) => result[c] = resp[c]

C8_Witness ==
    \E c \in Callers :
        /\ OpOf(c) = "applySuggestion"
        /\ SentTo(c) = "vendor"
        /\ Done(c)
        /\ result[c].kind = "throw"

\* C9 as stated: in direct mode, for every successful answer whose
\* choices[0].message.content is X, chat() returns the request's sessionId
\* and the single message {role: assistant, type: message, text: X}.
C9_ChatEchoesContent ==
    \A c \in Callers :
        (DirectAnswered(c) /\ OpOf(c) = "chat" /\ HasContent(resp[c].data)) =>
            result[c] =
                Return([sessionId |-> call[c].payload.sessionId,
                        messages |->
                            <<[role |-> "assistant", type |-> "message",
                               text |-> ContentOf(resp[c].data)]>>])

\* C9 amended: the same for every non-empty content X (an empty content is
\* replaced by the fallback text).
C9_ChatEchoesNonEmptyContent ==
    \A c \in Callers :
        (/\ DirectAnswered(c)
         /\ OpOf(c) = "chat"
         /\ HasContent(resp[c].data)
         /\ ContentOf(resp[c].data) # "") =>
            result[c] =
                Return([sessionId |-> call[c].payload.sessionId,
                        messages |->
                            <<[role |-> "assistant", type |-> "message",
                               text |-> ContentOf(resp[c].data)]>>])

C9_Witness ==
    \E c \in Callers :
        /\ DirectAnswered(c)
        /\ OpOf(c) = "chat"
        /\ HasContent(resp[c].data)
        /\ ContentOf(resp[c].data) = "Sure!"
        /\ call[c].payload.sessionId = "s2"

C11_NoRetry ==
    \A c \in Callers :
        /\ nreq[c] <= 1
        /\ (/\ OpOf(c) \in {"chat", "applySuggestion", "askAi"}
            /\ Done(c)
            /\ resp[c] # None
            /\ resp[c].kind \in {"error", "throw"}) =>
              /\ result[c].kind = "throw"
              /\ nreq[c] = 1

C11_Witness ==
    \E c \in Callers :
        /\ OpOf(c) = "chat"
        /\ Done(c)
        /\ SentTo(c) = "direct"
        /\ resp[c].kind = "error"
        /\ nreq[c] = 1
        /\ result[c].kind = "throw"

\* the backend chat(), applySuggestion() and askAi() dispatch to
DispatchTarget ==
    IF useCustomEndpoint /\ customHttpClient # Undefined THEN "direct"
    ELSE IF client # Undefined THEN "vendor"
    ELSE "none"

\* C12: once an initialisation has selected a backend, no step of any of the
\* four operations changes the backend the three dispatching operations use,
\* also when the environment has changed and would now resolve differently.
C12_ModeImmutable ==
    [][DispatchTarget # "none" => DispatchTarget' = DispatchTarget]_vars

C12_Witness ==
    /\ useCustomEndpoint
    /\ customHttpClient # Undefined
    /\ client # Undefined
    /\ ~ValidEndpointConfig
    /\ \E c \in Callers :
          /\ OpOf(c) = "chat"
          /\ pc[c] = "awaitPost"
          /\ req[c].via = customHttpClient

\* C13: the entitlement is observed, not enforced: an init() that runs with
\* isAiAssistantEnabled() = false is not blocked and completes with the
\* handle that the configuration alone selects, the same one a run with the
\* entitlement on ends with.
C13_EntitlementNotEnforced ==
    \A c \in Callers :
        (~aiAssistantEnabled /\ ranInit[c]) =>
            /\ pc[c] \in {"awaitInit", "awaitPost", "awaitVendor"} =>
                  IF ValidEndpointConfig
                  THEN /\ useCustomEndpoint
                       /\ customHttpClient # Undefined
                       /\ customHttpClient.kind = "AxiosInstance"
                       /\ client = Undefined
                  ELSE /\ ~useCustomEndpoint
                       /\ customHttpClient = Undefined
                       /\ client =
                            [kind |-> "AiAssistantClient",
                             licenseCert |-> "cert",
                             consumerId |-> "consumer",
                             n8nVersion |-> "1.0.0",
                             baseUrl |-> IF cfg.baseUrl # "" THEN cfg.baseUrl
                                         ELSE env.baseUrl,
                             logLevel |-> "info"]
            /\ (Done(c) /\ result[c].kind = "throw" /\ nreq[c] = 0) =>
                  \/ result[c].error.message = <<"loadCertStr failed">>
                  \/ /\ OpOf(c) = "createFreeAiCredits"
                     /\ result[c] = Throw(AssertionError)

C13_Witness ==
    \E c \in Callers :
        /\ ~aiAssistantEnabled
        /\ ranInit[c]
        /\ pc[c] = "awaitVendor"
        /\ client # Undefined

\* C14: the axios client init() constructs carries the X-Model header exactly
\* when the resolved model (configuration first, environment second) is
\* non-empty, and the header's value is that model.
C14_ModelHeader ==
    customHttpClient # Undefined =>
        /\ "X-Model" \in DOMAIN customHttpClient.headers <=>
              (cfg.model # "" \/ env.model # "")
        /\ "X-Model" \in DOMAIN customHttpClient.headers =>
              customHttpClient.headers["X-Model"] =
                  <<IF cfg.model # "" THEN cfg.model ELSE env.model>>

C14_Witness ==
    /\ customHttpClient # Undefined
    /\ cfg.model = ""
    /\ "X-Model" \in DOMAIN customHttpClient.headers
    /\ customHttpClient.headers["X-Model"] = <<"model-env">>

\* C15: with a configuration that does not change, chat(), applySuggestion()
\* and askAi() never fail with the setup assertion: an init() that completed
\* left a handle populated, and a call that sent nothing failed with the
\* error of init().
C15_AssertionUnreachable ==
    \A c \in Callers :
        OpOf(c) \in {"chat", "applySuggestion", "askAi"} =>
            /\ pc[c] = "awaitInit" =>
                  (client # Undefined \/ customHttpClient # Undefined)
            /\ Done(c) =>
                  /\ result[c] # Throw(AssertionError)
                  /\ nreq[c] = 0 =>
                        /\ ranInit[c]
                        /\ result[c].kind = "throw"
                        /\ result[c].error.message = <<"loadCertStr failed">>

C15_Witness ==
    \E c \in Callers :
        /\ OpOf(c) = "askAi"
        /\ Done(c)
        /\ nreq[c] = 0
        /\ result[c].kind = "throw"

C17_DirectConstructedOnce ==
    ValidEndpointConfig =>
        /\ constructed <= 1
        /\ \A c \in Callers :
              /\ pc[c] # "awaitLoadCertStr"
              /\ pc[c] # "idle" =>
                    /\ constructed = 1
                    /\ customHttpClient # Undefined

C17_Witness ==
    \E c, d \in Callers :
        /\ c # d
        /\ ValidEndpointConfig
        /\ ranInit[c] /\ pc[c] = "awaitInit"
        /\ ~ranInit[d] /\ pc[d] = "awaitPost"
        /\ constructed = 1

\* C18: useCustomEndpoint implies that customHttpClient is populated, and
\* useCustomEndpoint never goes from true to false; so the dispatch test
\* (useCustomEndpoint && customHttpClient) equals useCustomEndpoint.
C18_FlagImpliesClient ==
    /\ [](useCustomEndpoint => customHttpClient # Undefined)
    /\ [][useCustomEndpoint => useCustomEndpoint']_vars

C18_Witness ==
    /\ useCustomEndpoint
    /\ customHttpClient # Undefined
    /\ constructed >= 2
    /\ \E c \in Callers :
          /\ OpOf(c) = "createFreeAiCredits"
          /\ pc[c] = "awaitVendor"
====
